---------------------------- MODULE Spec2Model ----------------------------
(***************************************************************************)
(* RTO tracker (w00kie/rto-tracker): the calendar arithmetic of            *)
(* lib/date-utils.ts and the compliance engine of lib/compliance.ts.       *)
(*                                                                         *)
(* A JavaScript Date is modelled by its time value counted in HOURS since  *)
(* 1970-01-01T00:00Z (every Date the program builds lies on a whole hour); *)
(* the source's 86400000 ms per day is HoursPerDay hours.  The host's UTC  *)
(* offset is the variable tz (hours east of UTC): the getX/setX accessors  *)
(* read local time, the getUTCX/setUTCX accessors read UTC.                *)
(* An ISO date string "YYYY-MM-DD" is modelled by the triple <<y, m, d>>,  *)
(* compared lexicographically as the strings are.                          *)
(*                                                                         *)
(* A local variable of the source that is read more than once is bound as  *)
(* the parameter of a local operator named after what it holds (b, d0,     *)
(* weekStart, weeks, ...), so that its value is computed once, as the      *)
(* source's const is assigned once.                                        *)
(***************************************************************************)
EXTENDS Integers, Sequences, FiniteSets, TLC

VARIABLES
    tz,     \* host UTC offset in hours (environment of the Date accessors)
    call,   \* the call in progress: [fn |-> name, ...arguments], or Idle
    ret,    \* the value that call returned, as [<function name> |-> value]
    heldEntries,  \* the DayEntry[] array a caller of the engine holds and passes
    seen,   \* what the engine returned so far, per argument list
    dayEntries,        \* Convex table dayEntries: a set of documents
    complianceConfig,  \* Convex table complianceConfig: a set of documents
    nextId,            \* the next document id the Convex database issues
    localStorage,      \* the browser's localStorage: key |-> stored string, or Null
    dashboard,    \* the Dashboard component's state: year, quarters, isLoading, expandedQuarters
    localWeek,    \* the localWeek state of the mounted WeekCards, by week number
    cardEffects,  \* the WeekCards whose [week] effect has yet to run
    convexAuth,   \* what useConvexAuth() yields: [isLoading, isAuthenticated]
    rendered      \* the components AppContent has rendered

\* the two stores
stores == <<dayEntries, complianceConfig, nextId, localStorage>>

\* the state that the single calls of the calendar functions and of the engine,
\* which build their arguments themselves, leave alone
untouched == <<heldEntries, seen, stores, dashboard, localWeek, cardEffects, convexAuth, rendered>>

\* the state of the page's components
ui == <<dashboard, localWeek, cardEffects, convexAuth, rendered>>

\* the state of the root layout around the page
layout == <<convexAuth, rendered>>

vars == <<tz, call, ret, heldEntries, seen, dayEntries, complianceConfig, nextId, localStorage,
          dashboard, localWeek, cardEffects, convexAuth, rendered>>

-----------------------------------------------------------------------------
(* Bounds of the model *)

MinYear == 2015
MaxYear == 2027
Years == MinYear..MaxYear

HoursPerDay == 24

-----------------------------------------------------------------------------
(* The JavaScript Date built-ins the source relies on *)

\* ECMAScript MakeDay: day number (days since 1970-01-01) of year y, month
\* index m0 (0..11) and day of month d; d may lie outside the month, which is
\* how setUTCDate / setDate roll over into neighbouring months.
MakeDay(y, m0, d) ==
    LET m   == m0 + 1
        yy  == IF m <= 2 THEN y - 1 ELSE y
        era == yy \div 400
        yoe == yy - era * 400
        mp  == IF m > 2 THEN m - 3 ELSE m + 9
        doy == (153 * mp + 2) \div 5
        doe == yoe * 365 + yoe \div 4 - yoe \div 100 + doy
    IN  era * 146097 + doe - 719468 + (d - 1)

\* ECMAScript YearFromTime / MonthFromTime / DateFromTime of a day number:
\* [year, month (index 0..11), date (1..31)].
CivilFromDay(n) ==
    LET Fields(era, yoe, doy, mp) ==
            LET d == doy - (153 * mp + 2) \div 5 + 1
                m == IF mp < 10 THEN mp + 3 ELSE mp - 9
                y == yoe + era * 400 + (IF m <= 2 THEN 1 ELSE 0)
            IN  [year |-> y, month |-> m - 1, date |-> d]
        InYear(era, yoe, doy) == Fields(era, yoe, doy, (5 * doy + 2) \div 153)
        InEra(era, doe, yoe) == InYear(era, yoe, doe - (365 * yoe + yoe \div 4 - yoe \div 100))
        OfEra(z, era) ==
            LET doe == z - era * 146097
            IN  InEra(era, doe, (doe - doe \div 1460 + doe \div 36524 - doe \div 146096) \div 365)
    IN  OfEra(n + 719468, (n + 719468) \div 146097)

\* Date.UTC(year, monthIndex, day)
DateUTC(y, m0, d) == HoursPerDay * MakeDay(y, m0, d)

\* new Date(year, monthIndex, day): midnight in the host's local time
NewLocalDate(y, m0, d) == HoursPerDay * MakeDay(y, m0, d) - tz

\* UTC accessors
UTCDayNumber(t) == t \div HoursPerDay
getUTCDay(t) == (UTCDayNumber(t) + 4) % 7
getUTCDate(t) == CivilFromDay(UTCDayNumber(t)).date
getUTCFullYear(t) == CivilFromDay(UTCDayNumber(t)).year
setUTCDate(t, d) ==
    LET c == CivilFromDay(UTCDayNumber(t))
    IN  HoursPerDay * MakeDay(c.year, c.month, d) + (t % HoursPerDay)

\* local accessors: the same fields of the time shifted by the host offset
LocalDayNumber(t) == (t + tz) \div HoursPerDay
getDay(t) == (LocalDayNumber(t) + 4) % 7
getDate(t) == CivilFromDay(LocalDayNumber(t)).date
getMonth(t) == CivilFromDay(LocalDayNumber(t)).month
getFullYear(t) == CivilFromDay(LocalDayNumber(t)).year
setDate(t, d) ==
    LET c == CivilFromDay(LocalDayNumber(t))
    IN  HoursPerDay * MakeDay(c.year, c.month, d) + ((t + tz) % HoursPerDay) - tz

\* JavaScript's (x || 7) on a day of week
OrSeven(x) == IF x = 0 THEN 7 ELSE x

\* Math.ceil(a / 7) for an integer a
CeilDiv7(a) == (a + 6) \div 7

-----------------------------------------------------------------------------
(* lib/date-utils.ts *)

\* mutant: the year start is taken from the date itself, not from the Thursday
\* of its week
getWeekNumber_YearOfDate(date) ==
    LET Week(d, yearStart) == CeilDiv7((d - yearStart) \div HoursPerDay + 1)
        OfThursday(d0, d) == Week(d, DateUTC(getUTCFullYear(d0), 0, 1))
        OfDay(d0, dayNum) == OfThursday(d0, setUTCDate(d0, getUTCDate(d0) + 4 - dayNum))
        OfDate(d0) == OfDay(d0, OrSeven(getUTCDay(d0)))
    IN  OfDate(DateUTC(getFullYear(date), getMonth(date), getDate(date)))

\* mutant: the "|| 7" is forgotten, so a Sunday counts as day 0 of the next week
getWeekNumber_SundayAsZero(date) ==
    LET Week(d, yearStart) == CeilDiv7((d - yearStart) \div HoursPerDay + 1)
        OfThursday(d0, d) == Week(d, DateUTC(getUTCFullYear(d), 0, 1))
        OfDay(d0, dayNum) == OfThursday(d0, setUTCDate(d0, getUTCDate(d0) + 4 - dayNum))
        OfDate(d0) == OfDay(d0, getUTCDay(d0))
    IN  OfDate(DateUTC(getFullYear(date), getMonth(date), getDate(date)))

getWeekNumber(date) ==
    LET Week(d, yearStart) == CeilDiv7((d - yearStart) \div HoursPerDay + 1)
        OfThursday(d0, d) == Week(d, DateUTC(getUTCFullYear(d), 0, 1))
        OfDay(d0, dayNum) == OfThursday(d0, setUTCDate(d0, getUTCDate(d0) + 4 - dayNum))
        OfDate(d0) == OfDay(d0, OrSeven(getUTCDay(d0)))
    IN  OfDate(DateUTC(getFullYear(date), getMonth(date), getDate(date)))

\* mutant: the "|| 7" is forgotten, so a January 4 that is a Sunday counts as day 0
getWeekBounds_SundayAsZero(year, weekNumber) ==
    LET jan4    == DateUTC(year, 0, 4)
        jan4Day == getUTCDay(jan4)
        Bounds(weekStart) ==
            [start |-> weekStart, end |-> setUTCDate(weekStart, getUTCDate(weekStart) + 6)]
    IN  Bounds(setUTCDate(jan4, getUTCDate(jan4) - jan4Day + 1 + (weekNumber - 1) * 7))

getWeekBounds(year, weekNumber) ==
    LET jan4    == DateUTC(year, 0, 4)
        jan4Day == OrSeven(getUTCDay(jan4))
        Bounds(weekStart) ==
            [start |-> weekStart, end |-> setUTCDate(weekStart, getUTCDate(weekStart) + 6)]
    IN  Bounds(setUTCDate(jan4, getUTCDate(jan4) - jan4Day + 1 + (weekNumber - 1) * 7))

getQuarter(date) == (getMonth(date) \div 3) + 1

\* mutant: the January 1 special case is left out
getQuarterForWeek_NoJan1Rule(year, weekNumber) ==
    LET OfBounds(b) == [year |-> getFullYear(b.start), quarter |-> getQuarter(b.start)]
    IN  OfBounds(getWeekBounds(year, weekNumber))

getQuarterForWeek(year, weekNumber) ==
    LET jan1 == NewLocalDate(year, 0, 1)
        OfBounds(b) ==
            IF b.start <= jan1 /\ jan1 <= b.end
            THEN [year |-> year, quarter |-> 1]
            ELSE [year |-> getFullYear(b.start), quarter |-> getQuarter(b.start)]
    IN  OfBounds(getWeekBounds(year, weekNumber))

\* Array.prototype.sort((a, b) => a - b): a stable ascending sort
RECURSIVE InsertAsc(_, _)
InsertAsc(s, x) ==
    IF s = <<>> THEN <<x>>
    ELSE IF x < Head(s) THEN <<x>> \o s
    ELSE <<Head(s)>> \o InsertAsc(Tail(s), x)

RECURSIVE SortAsc(_)
SortAsc(s) == IF s = <<>> THEN <<>> ELSE InsertAsc(SortAsc(SubSeq(s, 1, Len(s) - 1)), s[Len(s)])

\* mutant: the final sort is left out, so an unshifted week 53 stays in front
getWeeksInQuarter_NoSort(year, quarter) ==
    LET InQuarter(w) == getQuarterForWeek(year, w) = [year |-> year, quarter |-> quarter]
        scanned == SelectSeq([w \in 1..53 |-> w], InQuarter)
        Unshift(prevYearWeek53, weeks) ==
            IF quarter = 1 /\ prevYearWeek53.year = year /\ prevYearWeek53.quarter = 1
            THEN <<53>> \o weeks
            ELSE weeks
    IN  Unshift(getQuarterForWeek(year - 1, 53), scanned)

getWeeksInQuarter(year, quarter) ==
    LET InQuarter(w) == getQuarterForWeek(year, w) = [year |-> year, quarter |-> quarter]
        \* the loop over weeks 1..53
        scanned == SelectSeq([w \in 1..53 |-> w], InQuarter)
        \* weeks.unshift(53) for a week 53 of the previous year that falls into Q1
        Unshift(prevYearWeek53, weeks) ==
            IF quarter = 1 /\ prevYearWeek53.year = year /\ prevYearWeek53.quarter = 1
            THEN <<53>> \o weeks
            ELSE weeks
    IN  SortAsc(Unshift(getQuarterForWeek(year - 1, 53), scanned))

\* toISODate: the UTC calendar date of the time value, as "YYYY-MM-DD"
toISODate(date) ==
    LET c == CivilFromDay(UTCDayNumber(date))
    IN  <<c.year, c.month + 1, c.date>>

\* comparison of two "YYYY-MM-DD" strings (a <= b), character by character:
\* with four-digit years and zero-padded fields, field by field
StrLeq(a, b) ==
    \/ a[1] < b[1]
    \/ a[1] = b[1] /\ a[2] < b[2]
    \/ a[1] = b[1] /\ a[2] = b[2] /\ a[3] <= b[3]

isWeekday(date) == getDay(date) >= 1 /\ getDay(date) <= 5

\* the while loop of getWeekdays: current runs from start while current <= end
RECURSIVE WeekdaysLoop(_, _, _)
WeekdaysLoop(current, end, weekdays) ==
    IF current <= end
    THEN WeekdaysLoop(setDate(current, getDate(current) + 1), end,
                      IF isWeekday(current) THEN Append(weekdays, current) ELSE weekdays)
    ELSE weekdays

getWeekdays(year, weekNumber) ==
    LET b == getWeekBounds(year, weekNumber)
    IN  WeekdaysLoop(b.start, b.end, <<>>)

-----------------------------------------------------------------------------
(* lib/compliance.ts *)

Undefined == [undefined |-> TRUE]

\* new Map(entries.map(d => [d.date, d])).get(dateStr): the last entry of the
\* list with that date, or undefined
RECURSIVE MapGet(_, _)
MapGet(entries, dateStr) ==
    IF entries = <<>> THEN Undefined
    ELSE IF entries[Len(entries)].date = dateStr THEN entries[Len(entries)]
    ELSE MapGet(SubSeq(entries, 1, Len(entries) - 1), dateStr)

\* array.filter(...).length for the office days
CountOffice(days) == Cardinality({i \in 1..Len(days) : days[i].location = "office"})

\* mutant: a week counts as compliant only with exactly the required number of days
IsCompliantWeek_Exactly(officeDays, config) == officeDays = config.requiredOfficeDaysPerWeek

\* mutant: a week counts as compliant only above the required number of days
IsCompliantWeek_Strict(officeDays, config) == officeDays > config.requiredOfficeDaysPerWeek

IsCompliantWeek(officeDays, config) == officeDays >= config.requiredOfficeDaysPerWeek

calculateWeekSummary(year, weekNumber, config, allEntries) ==
    LET Summary(startDate, endDate, days, officeDays) ==
            [weekNumber  |-> weekNumber,
             year        |-> year,
             startDate   |-> startDate,
             endDate     |-> endDate,
             officeDays  |-> officeDays,
             isCompliant |-> IsCompliantWeek(officeDays, config),
             days        |-> days]
        \* loggedMap.get(dateStr) || { date: dateStr, location: "home" }
        DayOf(dateStr, logged) ==
            IF logged # Undefined THEN logged ELSE [date |-> dateStr, location |-> "home"]
        Days(weekdays, loggedDays) ==
            [i \in 1..Len(weekdays) |->
                DayOf(toISODate(weekdays[i]), MapGet(loggedDays, toISODate(weekdays[i])))]
        Counted(startDate, endDate, days) == Summary(startDate, endDate, days, CountOffice(days))
        InRange(startDate, endDate) ==
            LET Within(entry) == StrLeq(startDate, entry.date) /\ StrLeq(entry.date, endDate)
                loggedDays == SelectSeq(allEntries, Within)
            IN  Counted(startDate, endDate, Days(getWeekdays(year, weekNumber), loggedDays))
        OfBounds(b) == InRange(toISODate(b.start), toISODate(b.end))
    IN  OfBounds(getWeekBounds(year, weekNumber))

\* mutant: the warning threshold must be exceeded, not just met
QuarterStatus_StrictWarning(compliantWeeks, config) ==
    IF compliantWeeks >= config.requiredCompliantWeeksPerQuarter THEN "compliant"
    ELSE IF compliantWeeks > config.warningThresholdWeeks THEN "warning"
    ELSE "danger"

\* mutant: the warning threshold is tested before the compliance threshold
QuarterStatus_WarningFirst(compliantWeeks, config) ==
    IF compliantWeeks >= config.warningThresholdWeeks THEN "warning"
    ELSE IF compliantWeeks >= config.requiredCompliantWeeksPerQuarter THEN "compliant"
    ELSE "danger"

\* the status decision of calculateQuarterSummary
QuarterStatus(compliantWeeks, config) ==
    IF compliantWeeks >= config.requiredCompliantWeeksPerQuarter THEN "compliant"
    ELSE IF compliantWeeks >= config.warningThresholdWeeks THEN "warning"
    ELSE "danger"

\* mutant: the weeks are summarised by their position in the list, not by
\* their week number
calculateQuarterSummary_IndexAsWeek(year, quarter, config, allEntries) ==
    LET Summary(weeks, compliantWeeks, totalWeeks) ==
            [quarter        |-> quarter,
             year           |-> year,
             compliantWeeks |-> compliantWeeks,
             totalWeeks     |-> totalWeeks,
             status         |-> QuarterStatus(compliantWeeks, config),
             weeks          |-> weeks]
        OfWeeks(weeks) ==
            Summary(weeks, Cardinality({i \in 1..Len(weeks) : weeks[i].isCompliant}), Len(weeks))
        OfWeekNumbers(weekNumbers) ==
            OfWeeks([i \in 1..Len(weekNumbers) |->
                        calculateWeekSummary(year, i, config, allEntries)])
    IN  OfWeekNumbers(getWeeksInQuarter(year, quarter))

calculateQuarterSummary(year, quarter, config, allEntries) ==
    LET Summary(weeks, compliantWeeks, totalWeeks) ==
            [quarter        |-> quarter,
             year           |-> year,
             compliantWeeks |-> compliantWeeks,
             totalWeeks     |-> totalWeeks,
             status         |-> QuarterStatus(compliantWeeks, config),
             weeks          |-> weeks]
        OfWeeks(weeks) ==
            Summary(weeks, Cardinality({i \in 1..Len(weeks) : weeks[i].isCompliant}), Len(weeks))
        OfWeekNumbers(weekNumbers) ==
            OfWeeks([i \in 1..Len(weekNumbers) |->
                        calculateWeekSummary(year, weekNumbers[i], config, allEntries)])
    IN  OfWeekNumbers(getWeeksInQuarter(year, quarter))

calculateYearSummary(year, config, allEntries) ==
    [q \in 1..4 |-> calculateQuarterSummary(year, q, config, allEntries)]

-----------------------------------------------------------------------------
(* The Gregorian / ISO-8601 calendar, stated independently of the code:    *)
(* the reference the claims compare the program with.                      *)

RefIsLeap(y) == (y % 4 = 0 /\ y % 100 # 0) \/ y % 400 = 0

\* day number (days since 1970-01-01) of January 1 of year y
RefJan1(y) == 365 * (y - 1970) + (y - 1969) \div 4 - (y - 1901) \div 100 + (y - 1601) \div 400

RefMonthLen(y, m) ==
    IF m = 2 THEN (IF RefIsLeap(y) THEN 29 ELSE 28)
    ELSE IF m \in {4, 6, 9, 11} THEN 30 ELSE 31

\* days of year y before its month m (m in 1..12)
RefDaysBeforeMonth(y, m) ==
    <<0, 31, 59, 90, 120, 151, 181, 212, 243, 273, 304, 334>>[m]
      + (IF m > 2 /\ RefIsLeap(y) THEN 1 ELSE 0)

\* day number of the calendar date y-m-d (m in 1..12)
RefDayNo(y, m, d) == RefJan1(y) + RefDaysBeforeMonth(y, m) + d - 1

\* the calendar date <<y, m, d>> of a day number
RefYearOf(n) ==
    CHOOSE y \in (1970 + n \div 366)..(1970 + n \div 365) : RefJan1(y) <= n /\ n < RefJan1(y + 1)
RefMonthOf(n) ==
    LET y == RefYearOf(n)
    IN  CHOOSE m \in 1..12 : RefDayNo(y, m, 1) <= n /\ n < RefDayNo(y, m, 1) + RefMonthLen(y, m)
RefCivil(n) ==
    LET y == RefYearOf(n)
        m == RefMonthOf(n)
    IN  <<y, m, n - RefDayNo(y, m, 1) + 1>>

\* ISO day of week, Monday = 1 .. Sunday = 7 (1970-01-01 was a Thursday)
RefDow(n) == ((n + 3) % 7) + 1

\* calendar quarter of a month 1..12
RefQuarterOfMonth(m) == IF m <= 3 THEN 1 ELSE IF m <= 6 THEN 2 ELSE IF m <= 9 THEN 3 ELSE 4

\* the first Thursday of year y, and the number of ISO weeks of y (its Thursdays)
RefFirstThursday(y) == CHOOSE n \in RefJan1(y)..(RefJan1(y) + 6) : RefDow(n) = 4
RefIsoWeeksInYear(y) == ((RefJan1(y + 1) - 1 - RefFirstThursday(y)) \div 7) + 1

\* ISO-8601 week number of a day: the rank of the Thursday of its Monday..Sunday
\* week among the Thursdays of that Thursday's year
RefIsoWeek(n) ==
    LET th == n - RefDow(n) + 4
    IN  ((th - RefFirstThursday(RefYearOf(th))) \div 7) + 1

\* the Monday of the week that contains January 4 of year y
RefWeek1Monday(y) ==
    LET jan4 == RefJan1(y) + 3
    IN  CHOOSE n \in (jan4 - 6)..jan4 : RefDow(n) = 1

\* Monday (day number) of the week getWeekBounds(y, w) is meant to describe
RefMonday(y, w) == RefWeek1Monday(y) + 7 * (w - 1)

SeqToSet(s) == {s[i] : i \in 1..Len(s)}
NoDuplicates(s) == Cardinality(SeqToSet(s)) = Len(s)

-----------------------------------------------------------------------------
(* Calls of the calendar functions *)

Idle == [fn |-> "idle"]
NoValue == [none |-> TRUE]

\* JavaScript's null
Null == [null |-> TRUE]

\* the keys of lib/storage.ts in localStorage
STORAGE_KEY == "rto-tracker-data"
CONFIG_KEY == "rto-tracker-config"

\* the year the Dashboard opens on: getCurrentYear() on the day of the visit
DashYear == 2025

\* mutant: the authentication test comes before the loading test
AppContent_LoginWhileLoading(auth) ==
    IF ~auth.isAuthenticated THEN {"LoginPage"}
    ELSE IF auth.isLoading THEN {"Loading"}
    ELSE {"Header", "children"}

\* the root layout's AppContent: the components it returns for what
\* useConvexAuth() yields
AppContent(auth) ==
    IF auth.isLoading THEN {"Loading"}
    ELSE IF ~auth.isAuthenticated THEN {"LoginPage"}
    ELSE {"Header", "children"}

\* the value v returned by a call of fn
Returned(fn, v) == [f \in {fn} |-> v]

\* the hours of the day at which a Date argument is taken
Hours == {0, 13}

\* the host time zones: UTC, and offsets west and east of it (whole hours)
HostOffsets == {-5, 0, 9}

Init ==
    /\ tz \in HostOffsets
    /\ call = Idle
    /\ ret = NoValue
    /\ heldEntries = <<>>
    /\ seen = <<>>
    /\ dayEntries = {}
    /\ complianceConfig = {}
    /\ nextId = 1
    /\ localStorage = [k \in {STORAGE_KEY, CONFIG_KEY} |-> Null]
    /\ dashboard = [year |-> DashYear, quarters |-> <<>>, isLoading |-> TRUE,
                    expandedQuarters |-> {}]
    /\ localWeek = <<>>
    /\ cardEffects = {}
    /\ convexAuth = [isLoading |-> TRUE, isAuthenticated |-> FALSE]
    /\ rendered = AppContent(convexAuth)

CallGetWeekNumber ==
    /\ call = Idle
    /\ \E y \in Years, m0 \in 0..11, d \in 1..31, h \in Hours :
         /\ CivilFromDay(MakeDay(y, m0, d)).month = m0
         /\ LET date == NewLocalDate(y, m0, d) + h
            IN  /\ call' = [fn |-> "getWeekNumber", date |-> date]
                /\ ret' = Returned("getWeekNumber", getWeekNumber(date))
    /\ UNCHANGED <<tz, untouched>>

CallGetWeekBounds ==
    /\ call = Idle
    /\ \E y \in Years, w \in 1..53 :
         /\ call' = [fn |-> "getWeekBounds", year |-> y, weekNumber |-> w]
         /\ ret' = Returned("getWeekBounds", getWeekBounds(y, w))
    /\ UNCHANGED <<tz, untouched>>

CallGetQuarterForWeek ==
    /\ call = Idle
    /\ \E y \in Years, w \in 1..53 :
         /\ call' = [fn |-> "getQuarterForWeek", year |-> y, weekNumber |-> w]
         /\ ret' = Returned("getQuarterForWeek", getQuarterForWeek(y, w))
    /\ UNCHANGED <<tz, untouched>>

CallGetWeeksInQuarter ==
    /\ call = Idle
    /\ \E y \in Years, q \in 1..4 :
         /\ call' = [fn |-> "getWeeksInQuarter", year |-> y, quarter |-> q]
         /\ ret' = Returned("getWeeksInQuarter", getWeeksInQuarter(y, q))
    /\ UNCHANGED <<tz, untouched>>

\* the caller takes the result and the next call can start
Return ==
    /\ call # Idle
    /\ call' = Idle
    /\ ret' = NoValue
    /\ UNCHANGED <<tz, untouched>>

Next ==
    \/ CallGetWeekNumber
    \/ CallGetWeekBounds
    \/ CallGetQuarterForWeek
    \/ CallGetWeeksInQuarter
    \/ Return

Spec == Init /\ [][Next]_vars

-----------------------------------------------------------------------------
(* Calls of the compliance engine *)

MaxRequired == 2

Locations == {"office", "home", "vacation", "sick"}

\* DEFAULT_CONFIG of the stores
DefaultConfig ==
    [requiredOfficeDaysPerWeek |-> 2, requiredCompliantWeeksPerQuarter |-> 8, warningThresholdWeeks |-> 7]

\* the date string of a day number
IsoDate(n) == RefCivil(n)

\* an entry as the stores hold it; the notes are optional
DayEntry(n, loc) ==
    IF loc = "sick"
    THEN [date |-> IsoDate(n), location |-> loc, notes |-> "flu"]
    ELSE [date |-> IsoDate(n), location |-> loc]

Reverse(s) == [i \in 1..Len(s) |-> s[Len(s) + 1 - i]]

\* The entry lists a week is summarised with, laid around the week's Monday m
\* (a day number): offsets 0..4 are Monday..Friday, 5 and 6 the weekend, -1 and
\* 7 the neighbouring weeks.  logged[o] says what Monday..Friday hold, extra is
\* the set of other offsets that hold an "office" entry.
WindowOffsets == <<-1, 0, 1, 2, 3, 4, 5, 6, 7>>
OtherLocation == <<"home", "vacation", "sick", "home", "vacation">>
LoggedChoices == [0..4 -> {"none", "office", "other"}]
ExtraChoices == {{}, {5}, {-1, 7}, {-1, 5, 6, 7}}

EntryList(m, logged, extra) ==
    LET offs == SelectSeq(WindowOffsets,
                          LAMBDA o : IF o \in 0..4 THEN logged[o] # "none" ELSE o \in extra)
    IN  [i \in 1..Len(offs) |->
            LET o == offs[i]
            IN  IF o \in 0..4 /\ logged[o] = "other"
                THEN DayEntry(m + o, OtherLocation[o + 1])
                ELSE DayEntry(m + o, "office")]

\* weeks summarised with every entry list above; every other week of Years is
\* summarised with the lists of BasicChoices
ProbeWeeks == {<<2020, 53>>, <<2024, 9>>, <<2025, 1>>}
BasicChoices ==
    { <<[o \in 0..4 |-> "none"], {}>>,
      <<[o \in 0..4 |-> "office"], {-1, 5, 6, 7}>>,
      <<[o \in 0..4 |-> IF o = 0 THEN "office" ELSE IF o = 4 THEN "none" ELSE "other"], {5}>> }

WeekChoices(y, w) ==
    IF <<y, w>> \in ProbeWeeks THEN LoggedChoices \X ExtraChoices ELSE BasicChoices

WeekConfigs ==
    { [requiredOfficeDaysPerWeek |-> r,
       requiredCompliantWeeksPerQuarter |-> 8,
       warningThresholdWeeks |-> 7] : r \in 0..MaxRequired }

CallCalculateWeekSummary ==
    /\ call = Idle
    /\ \E y \in Years, w \in 1..53, config \in WeekConfigs, backwards \in BOOLEAN :
         \E c \in WeekChoices(y, w) :
            LET inOrder    == EntryList(RefMonday(y, w), c[1], c[2])
                allEntries == IF backwards THEN Reverse(inOrder) ELSE inOrder
            IN  /\ call' = [fn |-> "calculateWeekSummary", year |-> y, weekNumber |-> w,
                            config |-> config, allEntries |-> allEntries]
                /\ ret' = Returned("calculateWeekSummary",
                                   calculateWeekSummary(y, w, config, allEntries))
    /\ UNCHANGED <<tz, untouched>>

NextWeekSummary ==
    \/ CallCalculateWeekSummary
    \/ Return

SpecWeekSummary == Init /\ [][NextWeekSummary]_vars

\* The entry lists a quarter is summarised with: "office" on the Monday and the
\* Tuesday of `run` consecutive weeks, the first of them the week before the
\* quarter's first ISO week of 13 (weeks 1, 14, 27, 40 of the year).
MaxRun == 15

RunList(y, q, run) ==
    LET first == RefMonday(y, 1) + 7 * (13 * (q - 1) - 1)
    IN  [i \in 1..(2 * run) |-> DayEntry(first + 7 * ((i - 1) \div 2) + ((i - 1) % 2), "office")]

QuarterYears == {2018, 2020, 2025}

\* the default configuration and others around it; in some the warning
\* threshold lies above the compliance threshold
QuarterConfigs ==
    { [requiredOfficeDaysPerWeek |-> 2,
       requiredCompliantWeeksPerQuarter |-> t[1],
       warningThresholdWeeks |-> t[2]] :
         t \in {<<DefaultConfig.requiredCompliantWeeksPerQuarter, DefaultConfig.warningThresholdWeeks>>,
                <<7, 8>>, <<9, 5>>, <<5, 9>>, <<0, 0>>, <<13, 13>>, <<3, 14>>} }

CallCalculateQuarterSummary ==
    /\ call = Idle
    /\ \E y \in QuarterYears, q \in 1..4, config \in QuarterConfigs, run \in 0..MaxRun :
         LET allEntries == RunList(y, q, run)
         IN  /\ call' = [fn |-> "calculateQuarterSummary", year |-> y, quarter |-> q,
                         config |-> config, allEntries |-> allEntries]
             /\ ret' = Returned("calculateQuarterSummary",
                                calculateQuarterSummary(y, q, config, allEntries))
    /\ UNCHANGED <<tz, untouched>>

NextQuarterSummary ==
    \/ CallCalculateQuarterSummary
    \/ Return

SpecQuarterSummary == Init /\ [][NextQuarterSummary]_vars

-----------------------------------------------------------------------------
-----------------------------------------------------------------------------
(* A caller that keeps one DayEntry[] array and calls the engine with it    *)
(* again and again                                                          *)

\* mutant: the week's entries are picked out of the array in place, which
\* leaves the array in reverse order
AfterFilter_InPlace(allEntries) == Reverse(allEntries)

\* allEntries.filter(...) builds a new array: the array it is called on is
\* left as it was
AfterFilter(allEntries) == allEntries

\* the caller's array after an engine call that filtered it n times (once per
\* week summarised)
RECURSIVE AfterFilters(_, _)
AfterFilters(n, allEntries) ==
    IF n = 0 THEN allEntries ELSE AfterFilters(n - 1, AfterFilter(allEntries))

\* the arrays a caller holds: entries around the first weeks of 2025, in and
\* out of date order
HeldYear == 2025
HeldChoices ==
    { <<>>,
      <<DayEntry(RefMonday(HeldYear, 2), "office"), DayEntry(RefMonday(HeldYear, 2) + 1, "office"),
        DayEntry(RefMonday(HeldYear, 2) + 5, "office")>>,
      <<DayEntry(RefMonday(HeldYear, 3) + 2, "sick"), DayEntry(RefMonday(HeldYear, 2), "office"),
        DayEntry(RefMonday(HeldYear, 1) + 4, "office"), DayEntry(RefMonday(HeldYear, 2) + 3, "office")>> }
HeldWeeks == {1, 2, 53}
HeldQuarters == {1, 4}

InitHeld ==
    /\ tz \in HostOffsets
    /\ call = Idle
    /\ ret = NoValue
    /\ heldEntries \in HeldChoices
    /\ seen = <<>>
    /\ dayEntries = {}
    /\ complianceConfig = {}
    /\ nextId = 1
    /\ localStorage = [k \in {STORAGE_KEY, CONFIG_KEY} |-> Null]
    /\ dashboard = [year |-> DashYear, quarters |-> <<>>, isLoading |-> TRUE,
                    expandedQuarters |-> {}]
    /\ localWeek = <<>>
    /\ cardEffects = {}
    /\ convexAuth = [isLoading |-> TRUE, isAuthenticated |-> FALSE]
    /\ rendered = AppContent(convexAuth)

\* the call returns; the result is noted under the call's arguments the first
\* time they are used
HeldCall(args, result) ==
    /\ call' = args
    /\ ret' = result
    /\ seen' = IF args \in DOMAIN seen THEN seen ELSE seen @@ (args :> result)

HeldCallWeek ==
    /\ call = Idle
    /\ \E w \in HeldWeeks :
         HeldCall([fn |-> "calculateWeekSummary", year |-> HeldYear, weekNumber |-> w,
                   config |-> DefaultConfig, allEntries |-> heldEntries],
                  Returned("calculateWeekSummary",
                           calculateWeekSummary(HeldYear, w, DefaultConfig, heldEntries)))
    /\ heldEntries' = AfterFilters(1, heldEntries)
    /\ UNCHANGED <<tz, stores, ui>>

HeldCallQuarter ==
    /\ call = Idle
    /\ \E q \in HeldQuarters :
         /\ HeldCall([fn |-> "calculateQuarterSummary", year |-> HeldYear, quarter |-> q,
                      config |-> DefaultConfig, allEntries |-> heldEntries],
                     Returned("calculateQuarterSummary",
                              calculateQuarterSummary(HeldYear, q, DefaultConfig, heldEntries)))
         /\ heldEntries' = AfterFilters(Len(getWeeksInQuarter(HeldYear, q)), heldEntries)
    /\ UNCHANGED <<tz, stores, ui>>

HeldCallYear ==
    /\ call = Idle
    /\ HeldCall([fn |-> "calculateYearSummary", year |-> HeldYear,
                 config |-> DefaultConfig, allEntries |-> heldEntries],
                Returned("calculateYearSummary",
                         calculateYearSummary(HeldYear, DefaultConfig, heldEntries)))
    /\ heldEntries' = AfterFilters(Len(getWeeksInQuarter(HeldYear, 1)) + Len(getWeeksInQuarter(HeldYear, 2))
                                   + Len(getWeeksInQuarter(HeldYear, 3)) + Len(getWeeksInQuarter(HeldYear, 4)),
                                   heldEntries)
    /\ UNCHANGED <<tz, stores, ui>>

NextHeld ==
    \/ HeldCallWeek
    \/ HeldCallQuarter
    \/ HeldCallYear
    \/ Return

SpecHeld == InitHeld /\ [][NextHeld]_vars

-----------------------------------------------------------------------------
(* The Convex backend: convex/days.ts and convex/config.ts.  A document is  *)
(* a record with the field id for its _id; ids are issued in the order of   *)
(* insertion, so that the order by id is the order by _creationTime.  Every *)
(* query and mutation runs as one transaction: one step.                    *)

MaxDocs == 3

Users == {"u1", "u2"}

\* who calls: auth.getUserId(ctx) is a user's id, or null without a session
NoUser == "null"
Callers == Users \cup {NoUser}

StoreDates == {<<2025, 1, 6>>, <<2025, 1, 7>>}
StoreRanges == {<<<<2025, 1, 6>>, <<2025, 1, 6>>>>, <<<<2025, 1, 6>>, <<2025, 1, 7>>>>,
                <<<<2025, 1, 7>>, <<2025, 1, 6>>>>}

\* location and notes of a setDay call; notes may be left out
DayArgs == {[location |-> "office"], [location |-> "home", notes |-> "wfh"]}

\* the three numbers of a setConfig call
ConfigArgs == {DefaultConfig,
               [requiredOfficeDaysPerWeek |-> 3, requiredCompliantWeeksPerQuarter |-> 10,
                warningThresholdWeeks |-> 9]}

\* throw new Error(message)
Thrown(message) == [error |-> message]

\* .first() of an index range: the oldest of the documents, or null
First(docs) ==
    IF docs = {} THEN Null ELSE CHOOSE d \in docs : \A o \in docs : d.id <= o.id

\* .collect() of an index range on one user: the documents, oldest first
RECURSIVE Collect(_)
Collect(docs) ==
    IF docs = {} THEN <<>> ELSE <<First(docs)>> \o Collect(docs \ {First(docs)})

\* .withIndex("by_user", q => q.eq("userId", userId))
ByUser(table, userId) == {d \in table : d.userId = userId}

\* mutant: the index range is taken on the date alone
ByUserAndDate_AnyUser(table, userId, date) == {d \in table : d.date = date}

\* .withIndex("by_user_and_date", q => q.eq("userId", userId).eq("date", date))
ByUserAndDate(table, userId, date) == {d \in table : d.userId = userId /\ d.date = date}

\* what ctx.db.patch writes into a document: the fields given are set, a field
\* given as undefined (here: a field of `optional` that is not given) is removed
Patched(doc, fields, optional) ==
    [f \in (DOMAIN doc \ (optional \ DOMAIN fields)) \cup DOMAIN fields |->
        IF f \in DOMAIN fields THEN fields[f] ELSE doc[f]]

\* ctx.db.patch(id, fields)
Patch(table, id, fields, optional) ==
    {IF d.id = id THEN Patched(d, fields, optional) ELSE d : d \in table}

\* the document ctx.db.insert stores
Inserted(id, userId, fields) ==
    [f \in {"id", "userId"} \cup DOMAIN fields |->
        IF f = "id" THEN id ELSE IF f = "userId" THEN userId ELSE fields[f]]

\* both stores empty; they do no date arithmetic, the host's time zone is left
\* at UTC
InitStores == Init /\ tz = 0

\* days.getDay
ConvexGetDay ==
    /\ \E user \in Callers, date \in StoreDates :
         /\ call' = [fn |-> "days.getDay", user |-> user, date |-> date]
         /\ ret' = IF user = NoUser THEN Thrown("Not authenticated")
                   ELSE Returned("entry", First(ByUserAndDate(dayEntries, user, date)))
    /\ UNCHANGED <<tz, heldEntries, seen, ui, stores>>

\* days.getDaysInRange
ConvexGetDaysInRange ==
    /\ \E user \in Callers, range \in StoreRanges :
         /\ call' = [fn |-> "days.getDaysInRange", user |-> user,
                     startDate |-> range[1], endDate |-> range[2]]
         /\ ret' = IF user = NoUser THEN Thrown("Not authenticated")
                   ELSE Returned("entries",
                                 SelectSeq(Collect(ByUser(dayEntries, user)),
                                           LAMBDA entry : StrLeq(range[1], entry.date)
                                                            /\ StrLeq(entry.date, range[2])))
    /\ UNCHANGED <<tz, heldEntries, seen, ui, stores>>

\* mutant: getAllDays does not look at the caller's identity
ConvexGetAllDays_NoAuthCheck ==
    /\ \E user \in Callers :
         /\ call' = [fn |-> "days.getAllDays", user |-> user]
         /\ ret' = Returned("entries", Collect(ByUser(dayEntries, user)))
    /\ UNCHANGED <<tz, heldEntries, seen, ui, stores>>

\* days.getAllDays
ConvexGetAllDays ==
    /\ \E user \in Callers :
         /\ call' = [fn |-> "days.getAllDays", user |-> user]
         /\ ret' = IF user = NoUser THEN Thrown("Not authenticated")
                   ELSE Returned("entries", Collect(ByUser(dayEntries, user)))
    /\ UNCHANGED <<tz, heldEntries, seen, ui, stores>>

\* mutant: setDay inserts without looking for an entry of that user and date
ConvexSetDay_AlwaysInsert ==
    /\ \E user \in Callers, date \in StoreDates, args \in DayArgs :
         /\ call' = [fn |-> "days.setDay", user |-> user, date |-> date, args |-> args]
         /\ IF user = NoUser
            THEN /\ ret' = Thrown("Not authenticated")
                 /\ UNCHANGED <<dayEntries, nextId>>
            ELSE /\ nextId <= MaxDocs
                 /\ dayEntries' = dayEntries \cup {Inserted(nextId, user, [date |-> date] @@ args)}
                 /\ ret' = Returned("id", nextId)
                 /\ nextId' = nextId + 1
    /\ UNCHANGED <<tz, heldEntries, seen, ui, complianceConfig, localStorage>>

\* days.setDay: patch the user's entry of that date, or insert one
ConvexSetDay ==
    /\ \E user \in Callers, date \in StoreDates, args \in DayArgs :
         /\ call' = [fn |-> "days.setDay", user |-> user, date |-> date, args |-> args]
         /\ IF user = NoUser
            THEN /\ ret' = Thrown("Not authenticated")
                 /\ UNCHANGED <<dayEntries, nextId>>
            ELSE IF First(ByUserAndDate(dayEntries, user, date)) # Null
            THEN /\ dayEntries' = Patch(dayEntries, First(ByUserAndDate(dayEntries, user, date)).id,
                                        args, {"notes"})
                 /\ ret' = Returned("id", First(ByUserAndDate(dayEntries, user, date)).id)
                 /\ UNCHANGED nextId
            ELSE /\ nextId <= MaxDocs
                 /\ dayEntries' = dayEntries \cup {Inserted(nextId, user, [date |-> date] @@ args)}
                 /\ ret' = Returned("id", nextId)
                 /\ nextId' = nextId + 1
    /\ UNCHANGED <<tz, heldEntries, seen, ui, complianceConfig, localStorage>>

\* mutant: removeDay deletes every entry of the calling user
ConvexRemoveDay_EveryDate ==
    /\ \E user \in Callers, date \in StoreDates :
         /\ call' = [fn |-> "days.removeDay", user |-> user, date |-> date]
         /\ IF user = NoUser
            THEN /\ ret' = Thrown("Not authenticated")
                 /\ UNCHANGED dayEntries
            ELSE /\ ret' = NoValue
                 /\ dayEntries' = dayEntries \ ByUser(dayEntries, user)
    /\ UNCHANGED <<tz, heldEntries, seen, ui, complianceConfig, nextId, localStorage>>

\* days.removeDay
ConvexRemoveDay ==
    /\ \E user \in Callers, date \in StoreDates :
         /\ call' = [fn |-> "days.removeDay", user |-> user, date |-> date]
         /\ IF user = NoUser
            THEN /\ ret' = Thrown("Not authenticated")
                 /\ UNCHANGED dayEntries
            ELSE /\ ret' = NoValue
                 /\ dayEntries' = dayEntries \ {First(ByUserAndDate(dayEntries, user, date))}
    /\ UNCHANGED <<tz, heldEntries, seen, ui, complianceConfig, nextId, localStorage>>

\* config.getConfig
ConvexGetConfig ==
    /\ \E user \in Callers :
         /\ call' = [fn |-> "config.getConfig", user |-> user]
         /\ ret' = IF user = NoUser THEN Thrown("Not authenticated")
                   ELSE IF First(ByUser(complianceConfig, user)) # Null
                   THEN Returned("config", First(ByUser(complianceConfig, user)))
                   ELSE Returned("config", DefaultConfig)
    /\ UNCHANGED <<tz, heldEntries, seen, ui, stores>>

\* mutant: setConfig inserts without looking for the user's configuration
ConvexSetConfig_AlwaysInsert ==
    /\ \E user \in Callers, args \in ConfigArgs :
         /\ call' = [fn |-> "config.setConfig", user |-> user, args |-> args]
         /\ IF user = NoUser
            THEN /\ ret' = Thrown("Not authenticated")
                 /\ UNCHANGED <<complianceConfig, nextId>>
            ELSE /\ nextId <= MaxDocs
                 /\ complianceConfig' = complianceConfig \cup {Inserted(nextId, user, args)}
                 /\ ret' = Returned("id", nextId)
                 /\ nextId' = nextId + 1
    /\ UNCHANGED <<tz, heldEntries, seen, ui, dayEntries, localStorage>>

\* config.setConfig: patch the user's configuration, or insert one
ConvexSetConfig ==
    /\ \E user \in Callers, args \in ConfigArgs :
         /\ call' = [fn |-> "config.setConfig", user |-> user, args |-> args]
         /\ IF user = NoUser
            THEN /\ ret' = Thrown("Not authenticated")
                 /\ UNCHANGED <<complianceConfig, nextId>>
            ELSE IF First(ByUser(complianceConfig, user)) # Null
            THEN /\ complianceConfig' = Patch(complianceConfig, First(ByUser(complianceConfig, user)).id,
                                              args, {})
                 /\ ret' = Returned("id", First(ByUser(complianceConfig, user)).id)
                 /\ UNCHANGED nextId
            ELSE /\ nextId <= MaxDocs
                 /\ complianceConfig' = complianceConfig \cup {Inserted(nextId, user, args)}
                 /\ ret' = Returned("id", nextId)
                 /\ nextId' = nextId + 1
    /\ UNCHANGED <<tz, heldEntries, seen, ui, dayEntries, localStorage>>

NextConvex ==
    \/ ConvexGetDay
    \/ ConvexGetDaysInRange
    \/ ConvexGetAllDays
    \/ ConvexSetDay
    \/ ConvexRemoveDay
    \/ ConvexGetConfig
    \/ ConvexSetConfig

SpecConvex == InitStores /\ [][NextConvex]_vars

-----------------------------------------------------------------------------

(* The browser store: lib/storage.ts on localStorage (in the browser, where *)
(* window is defined).  A stored string is modelled by the value it spells: *)
(* JSON.stringify leaves out properties that are undefined, which the       *)
(* model's records do not have in the first place.                          *)

\* JSON.stringify and JSON.parse
Stringify(value) == [text |-> value]
Parse(data) == data.text

\* the empty object {}
EmptyObject == <<>>

\* loadDays(): the days object of the stored data, keyed by date
loadDays ==
    IF localStorage[STORAGE_KEY] = Null THEN EmptyObject
    ELSE Parse(localStorage[STORAGE_KEY]).days

\* localStorage after saveDays(days)
saveDays(days) == [localStorage EXCEPT ![STORAGE_KEY] = Stringify([days |-> days])]

\* days[date] = entry on the object days
WithKey(days, date, entry) ==
    [k \in DOMAIN days \cup {date} |-> IF k = date THEN entry ELSE days[k]]

\* delete days[date]
WithoutKey(days, date) == [k \in DOMAIN days \ {date} |-> days[k]]

\* entries.sort((a, b) => a.date.localeCompare(b.date)) of the entries of days
\* whose key lies in the range
RECURSIVE SortedByDate(_, _)
SortedByDate(days, keys) ==
    IF keys = {} THEN <<>>
    ELSE LET Rest(least) == <<days[least]>> \o SortedByDate(days, keys \ {least})
         IN  Rest(CHOOSE k \in keys : \A o \in keys : StrLeq(k, o))

\* loadConfig()
loadConfig ==
    IF localStorage[CONFIG_KEY] = Null THEN DefaultConfig ELSE Parse(localStorage[CONFIG_KEY])

\* localStorage after saveConfig(config)
saveConfig(config) == [localStorage EXCEPT ![CONFIG_KEY] = Stringify(config)]

\* storage.getDay(date)
StorageGetDay ==
    /\ \E date \in StoreDates :
         /\ call' = [fn |-> "storage.getDay", date |-> date]
         /\ ret' = IF date \in DOMAIN loadDays THEN Returned("entry", loadDays[date])
                   ELSE Returned("entry", Undefined)
    /\ UNCHANGED <<tz, heldEntries, seen, ui, stores>>

\* storage.setDay(entry)
StorageSetDay ==
    /\ \E date \in StoreDates, args \in DayArgs :
         /\ call' = [fn |-> "storage.setDay", entry |-> [date |-> date] @@ args]
         /\ localStorage' = saveDays(WithKey(loadDays, date, [date |-> date] @@ args))
    /\ ret' = NoValue
    /\ UNCHANGED <<tz, heldEntries, seen, ui, dayEntries, complianceConfig, nextId>>

\* storage.deleteDay(date)
StorageDeleteDay ==
    /\ \E date \in StoreDates :
         /\ call' = [fn |-> "storage.deleteDay", date |-> date]
         /\ localStorage' = saveDays(WithoutKey(loadDays, date))
    /\ ret' = NoValue
    /\ UNCHANGED <<tz, heldEntries, seen, ui, dayEntries, complianceConfig, nextId>>

\* storage.getDaysInRange(startDate, endDate)
StorageGetDaysInRange ==
    /\ \E range \in StoreRanges :
         /\ call' = [fn |-> "storage.getDaysInRange", startDate |-> range[1], endDate |-> range[2]]
         /\ ret' = Returned("entries",
                            SortedByDate(loadDays,
                                         {k \in DOMAIN loadDays : StrLeq(range[1], k) /\ StrLeq(k, range[2])}))
    /\ UNCHANGED <<tz, heldEntries, seen, ui, stores>>

\* storage.loadConfig()
StorageLoadConfig ==
    /\ call' = [fn |-> "storage.loadConfig"]
    /\ ret' = Returned("config", loadConfig)
    /\ UNCHANGED <<tz, heldEntries, seen, ui, stores>>

\* storage.saveConfig(config)
StorageSaveConfig ==
    /\ \E config \in ConfigArgs :
         /\ call' = [fn |-> "storage.saveConfig", config |-> config]
         /\ localStorage' = saveConfig(config)
    /\ ret' = NoValue
    /\ UNCHANGED <<tz, heldEntries, seen, ui, dayEntries, complianceConfig, nextId>>

\* the day records of both stores, written and removed in any order
NextDays ==
    \/ ConvexSetDay
    \/ ConvexRemoveDay
    \/ ConvexGetDay
    \/ StorageSetDay
    \/ StorageDeleteDay
    \/ StorageGetDay
    \/ StorageGetDaysInRange

SpecDays == InitStores /\ [][NextDays]_vars

\* the configuration of both stores, written and read in any order
NextConfig ==
    \/ ConvexGetConfig
    \/ ConvexSetConfig
    \/ StorageLoadConfig
    \/ StorageSaveConfig

SpecConfig == InitStores /\ [][NextConfig]_vars

-----------------------------------------------------------------------------

(* A log of days in localStorage, summarised by the engine *)

\* the dates logged: Monday and Tuesday of week 2 of 2025 and the Monday of
\* week 14, the last of the first quarter
LogYear == 2025
LogDates == {<<2025, 1, 6>>, <<2025, 1, 7>>, <<2025, 3, 31>>}

\* storage.setDay(entry) on one of the dates logged
LogSetDay ==
    /\ \E date \in LogDates, args \in DayArgs :
         /\ call' = [fn |-> "storage.setDay", entry |-> [date |-> date] @@ args]
         /\ localStorage' = saveDays(WithKey(loadDays, date, [date |-> date] @@ args))
    /\ ret' = NoValue
    /\ UNCHANGED <<tz, heldEntries, seen, ui, dayEntries, complianceConfig, nextId>>

\* storage.getDaysInRange over the whole year: the entries handed to the engine
LogGetDays ==
    /\ call' = [fn |-> "storage.getDaysInRange",
                startDate |-> <<LogYear, 1, 1>>, endDate |-> <<LogYear, 12, 31>>]
    /\ ret' = Returned("entries",
                       SortedByDate(loadDays,
                                    {k \in DOMAIN loadDays :
                                        StrLeq(<<LogYear, 1, 1>>, k) /\ StrLeq(k, <<LogYear, 12, 31>>)}))
    /\ UNCHANGED <<tz, heldEntries, seen, ui, stores>>

NextLog ==
    \/ LogSetDay
    \/ LogGetDays

SpecLog == Init /\ [][NextLog]_vars

-----------------------------------------------------------------------------

(* The calendar functions on two hosts: the same call on a host in some time *)
(* zone and then on a host on UTC                                            *)

\* the host time zones: whole hours from UTC-12 to UTC+14, no daylight saving
ZoneOffsets == -12..14

\* the five date strings of getWeekdays(year, weekNumber).map(toISODate)
WeekdayStrings(year, weekNumber) ==
    LET Strings(weekdays) == [i \in 1..Len(weekdays) |-> toISODate(weekdays[i])]
    IN  Strings(getWeekdays(year, weekNumber))

\* what the call c, repeated, returns on the host the state is on
ZoneResult(c) ==
    IF c.fn = "getWeekdays" THEN Returned("getWeekdays", WeekdayStrings(c.year, c.weekNumber))
    ELSE IF c.fn = "getQuarterForWeek"
    THEN Returned("getQuarterForWeek", getQuarterForWeek(c.year, c.weekNumber))
    ELSE Returned("getWeeksInQuarter", getWeeksInQuarter(c.year, c.quarter))

InitZones ==
    /\ tz \in ZoneOffsets
    /\ call = Idle
    /\ ret = NoValue
    /\ heldEntries = <<>>
    /\ seen = <<>>
    /\ dayEntries = {}
    /\ complianceConfig = {}
    /\ nextId = 1
    /\ localStorage = [k \in {STORAGE_KEY, CONFIG_KEY} |-> Null]
    /\ dashboard = [year |-> DashYear, quarters |-> <<>>, isLoading |-> TRUE,
                    expandedQuarters |-> {}]
    /\ localWeek = <<>>
    /\ cardEffects = {}
    /\ convexAuth = [isLoading |-> TRUE, isAuthenticated |-> FALSE]
    /\ rendered = AppContent(convexAuth)

\* the calls on the first host; call.host is that host's offset, call.repeated
\* says whether ret is the result of the repetition on the UTC host
ZoneCallGetWeekdays ==
    /\ call = Idle
    /\ \E y \in Years, w \in 1..53 :
         /\ call' = [fn |-> "getWeekdays", year |-> y, weekNumber |-> w,
                     host |-> tz, repeated |-> FALSE]
         /\ ret' = Returned("getWeekdays", WeekdayStrings(y, w))
    /\ UNCHANGED <<tz, untouched>>

ZoneCallGetQuarterForWeek ==
    /\ call = Idle
    /\ \E y \in Years, w \in 1..53 :
         /\ call' = [fn |-> "getQuarterForWeek", year |-> y, weekNumber |-> w,
                     host |-> tz, repeated |-> FALSE]
         /\ ret' = Returned("getQuarterForWeek", getQuarterForWeek(y, w))
    /\ UNCHANGED <<tz, untouched>>

ZoneCallGetWeeksInQuarter ==
    /\ call = Idle
    /\ \E y \in Years, q \in 1..4 :
         /\ call' = [fn |-> "getWeeksInQuarter", year |-> y, quarter |-> q,
                     host |-> tz, repeated |-> FALSE]
         /\ ret' = Returned("getWeeksInQuarter", getWeeksInQuarter(y, q))
    /\ UNCHANGED <<tz, untouched>>

\* the result is kept and the program is taken to a host on UTC
ZoneMoveToUTC ==
    /\ call # Idle
    /\ tz # 0
    /\ tz' = 0
    /\ seen' = <<ret>>
    /\ UNCHANGED <<call, ret, heldEntries, stores, ui>>

\* the same call on the UTC host
ZoneRepeat ==
    /\ call # Idle
    /\ seen # <<>>
    /\ ~call.repeated
    /\ call' = [call EXCEPT !.repeated = TRUE]
    /\ ret' = ZoneResult(call)
    /\ UNCHANGED <<tz, untouched>>

NextZones ==
    \/ ZoneCallGetWeekdays
    \/ ZoneCallGetQuarterForWeek
    \/ ZoneCallGetWeeksInQuarter
    \/ ZoneMoveToUTC
    \/ ZoneRepeat

SpecZones == InitZones /\ [][NextZones]_vars

-----------------------------------------------------------------------------

(* The dashboard page over localStorage: routes/__root.tsx, WeekCard.tsx *)

\* getCurrentQuarter() on the day of the visit
currentQuarterInfo == [year |-> DashYear, quarter |-> 1]

\* the week cards followed, by week number: cards of the quarter that loadData
\* leaves expanded
CardWeeks == {2}

locationCycle == <<"home", "office", "vacation", "sick">>

\* locationCycle[(locationCycle.indexOf(currentLocation) + 1) % locationCycle.length]
NextLocation(currentLocation) ==
    LET After(currentIndex) == locationCycle[((currentIndex + 1) % Len(locationCycle)) + 1]
    IN  After((CHOOSE i \in 1..Len(locationCycle) : locationCycle[i] = currentLocation) - 1)

\* the Dashboard's state after loadData(): the year summary is computed from
\* the stored configuration alone, allEntries keeps its default []
loadData ==
    [year             |-> dashboard.year,
     quarters         |-> calculateYearSummary(dashboard.year, loadConfig, <<>>),
     isLoading        |-> FALSE,
     expandedQuarters |-> IF dashboard.year = currentQuarterInfo.year
                          THEN {currentQuarterInfo.quarter} ELSE {}]

\* the week prop QuarterView hands to the WeekCard of week weekNumber
WeekProp(quarters, weekNumber) ==
    LET OfWeeks(weeks) ==
            weeks[CHOOSE i \in 1..Len(weeks) : weeks[i].weekNumber = weekNumber]
    IN  OfWeeks(quarters[currentQuarterInfo.quarter].weeks)

\* the Dashboard mounts: its [year] effect runs loadData, the cards of the
\* expanded quarter mount with useState(week)
DashboardMount ==
    /\ dashboard.isLoading
    /\ dashboard' = loadData
    /\ localWeek' = [w \in CardWeeks |-> WeekProp(dashboard'.quarters, w)]
    /\ cardEffects' = {}
    /\ call' = [fn |-> "Dashboard.loadData"]
    /\ ret' = NoValue
    /\ UNCHANGED <<tz, heldEntries, seen, stores, layout>>

\* localWeek after the optimistic setLocalWeek of handleToggle
Optimistic(week, date, newLocation) ==
    LET OfDays(updatedDays) ==
            [week EXCEPT !.days = updatedDays, !.officeDays = CountOffice(updatedDays)]
    IN  OfDays([i \in 1..Len(week.days) |->
                   IF week.days[i].date = date
                   THEN [week.days[i] EXCEPT !.location = newLocation]
                   ELSE week.days[i]])

\* a click on a day button of a week card: handleToggle(day.date, day.location)
\* stores the next location, sets localWeek optimistically and calls onUpdate,
\* which is the Dashboard's loadData; every card then has its [week] effect due
WeekCardToggle ==
    /\ cardEffects = {}
    /\ \E w \in DOMAIN localWeek : \E i \in 1..Len(localWeek[w].days) :
         LET day == localWeek[w].days[i]
             newLocation == NextLocation(day.location)
         IN  /\ call' = [fn |-> "WeekCard.handleToggle", weekNumber |-> w,
                         date |-> day.date, currentLocation |-> day.location]
             /\ localStorage' = saveDays(WithKey(loadDays, day.date,
                                    [date |-> day.date, location |-> newLocation]))
             /\ localWeek' = [localWeek EXCEPT ![w] = Optimistic(@, day.date, newLocation)]
    /\ dashboard' = loadData
    /\ cardEffects' = DOMAIN localWeek
    /\ ret' = NoValue
    /\ UNCHANGED <<tz, heldEntries, seen, dayEntries, complianceConfig, nextId, layout>>

\* the effect of a card on [week]: setLocalWeek(week)
WeekCardEffect ==
    /\ \E w \in cardEffects :
         /\ localWeek' = [localWeek EXCEPT ![w] = WeekProp(dashboard.quarters, w)]
         /\ cardEffects' = cardEffects \ {w}
    /\ UNCHANGED <<tz, call, ret, heldEntries, seen, stores, dashboard, layout>>

NextDashboard ==
    \/ DashboardMount
    \/ WeekCardToggle
    \/ WeekCardEffect

SpecDashboard == Init /\ [][NextDashboard]_vars

-----------------------------------------------------------------------------
(* The root layout around the page: AppContent *)

\* what useConvexAuth() can yield
AuthStates == [isLoading : BOOLEAN, isAuthenticated : BOOLEAN]

\* useConvexAuth() yields a new value and AppContent renders again; a Dashboard
\* that is no longer rendered unmounts, and its state and its cards' are gone
AuthChange ==
    /\ \E auth \in AuthStates \ {convexAuth} :
         /\ convexAuth' = auth
         /\ rendered' = AppContent(auth)
         /\ call' = [fn |-> "AppContent"] @@ auth
    /\ ret' = NoValue
    /\ IF "children" \in rendered /\ "children" \in rendered'
       THEN UNCHANGED <<dashboard, localWeek, cardEffects>>
       ELSE /\ dashboard' = [year |-> DashYear, quarters |-> <<>>, isLoading |-> TRUE,
                             expandedQuarters |-> {}]
            /\ localWeek' = <<>>
            /\ cardEffects' = {}
    /\ UNCHANGED <<tz, heldEntries, seen, stores>>

\* the Dashboard and its cards act only while AppContent renders its children
RenderedDashboardMount == "children" \in rendered /\ DashboardMount
RenderedWeekCardToggle == "children" \in rendered /\ WeekCardToggle
RenderedWeekCardEffect == "children" \in rendered /\ WeekCardEffect

NextApp ==
    \/ AuthChange
    \/ RenderedDashboardMount
    \/ RenderedWeekCardToggle
    \/ RenderedWeekCardEffect

SpecApp == Init /\ [][NextApp]_vars

-----------------------------------------------------------------------------

(* Claims about the calendar arithmetic *)

\* the week numbers getWeeksInQuarter(y, q) lists for the year's own weeks: the
\* list without the week 53 it takes over from the previous year
OwnWeeks(y, q) ==
    LET prev == getQuarterForWeek(y - 1, 53)
    IN  SeqToSet(getWeeksInQuarter(y, q))
          \ (IF q = 1 /\ prev = [year |-> y, quarter |-> 1] THEN {53} ELSE {})

\* C1: for every year Y the four lists getWeeksInQuarter(Y, 1..4) are pairwise
\* disjoint and their union is exactly the set of ISO week numbers of Y
\* (1..52, or 1..53 only when Y is a 53-week ISO year), apart from a week 53
\* that spills into the next year's Q1 (dates taken as UTC calendar dates: the
\* host runs on UTC).
C1_QuartersPartitionIsoWeeks ==
    (call.fn = "getWeeksInQuarter" /\ tz = 0) =>
        LET Y   == call.year
            iso == 1..RefIsoWeeksInYear(Y)
            all == UNION {OwnWeeks(Y, q) : q \in 1..4}
        IN  /\ NoDuplicates(ret.getWeeksInQuarter)
            /\ \A q1, q2 \in 1..4 : q1 # q2 => OwnWeeks(Y, q1) \cap OwnWeeks(Y, q2) = {}
            /\ all \in {iso, iso \ {53}}

\* C2: getQuarterForWeek(year, weekNumber) is (year, 1) when the week's
\* Monday..Sunday range contains January 1 of year, and otherwise (calendar year
\* of the week's Monday, calendar quarter of the week's Monday); in particular
\* getQuarterForWeek(2025, 1) is (2025, 1) although its Monday is in December 2024.
C2_QuarterForWeekRule ==
    call.fn = "getQuarterForWeek" =>
        LET monday == RefMonday(call.year, call.weekNumber)
            jan1   == RefJan1(call.year)
            civil  == RefCivil(monday)
        IN  /\ ret.getQuarterForWeek = IF monday <= jan1 /\ jan1 <= monday + 6
                     THEN [year |-> call.year, quarter |-> 1]
                     ELSE [year |-> civil[1], quarter |-> RefQuarterOfMonth(civil[2])]
            /\ (call.year = 2025 /\ call.weekNumber = 1) =>
                   /\ ret.getQuarterForWeek = [year |-> 2025, quarter |-> 1]
                   /\ civil[1] = 2024 /\ civil[2] = 12

\* C2 holds on hosts at or east of UTC
C2_QuarterForWeekRuleEastOfUTC == tz >= 0 => C2_QuarterForWeekRule

\* C2 witness: week 1 of 2025, whose Monday is 2024-12-30, resolved to (2025, Q1)
C2_Witness ==
    /\ call = [fn |-> "getQuarterForWeek", year |-> 2025, weekNumber |-> 1]
    /\ RefCivil(RefMonday(2025, 1)) = <<2024, 12, 30>>
    /\ ret.getQuarterForWeek = [year |-> 2025, quarter |-> 1]

\* C3: getWeekBounds(year, weekNumber).start is a Monday, the Monday of the week
\* containing January 4 of year plus 7 * (weekNumber - 1) days, and .end is that
\* start plus 6 days, a Sunday; getWeekBounds(2025, 1) is 2024-12-30 .. 2025-01-05.
C3_WeekBounds ==
    call.fn = "getWeekBounds" =>
        LET monday == RefMonday(call.year, call.weekNumber)
        IN  /\ ret.getWeekBounds.start = HoursPerDay * monday
            /\ RefDow(UTCDayNumber(ret.getWeekBounds.start)) = 1
            /\ ret.getWeekBounds.end = HoursPerDay * (monday + 6)
            /\ RefDow(UTCDayNumber(ret.getWeekBounds.end)) = 7
            /\ (call.year = 2025 /\ call.weekNumber = 1) =>
                   /\ ret.getWeekBounds.start = HoursPerDay * RefDayNo(2024, 12, 30)
                   /\ ret.getWeekBounds.end = HoursPerDay * RefDayNo(2025, 1, 5)

\* C3 witness: the bounds of week 53 of a year whose January 4 is a Sunday
C3_Witness ==
    /\ call.fn = "getWeekBounds"
    /\ call.weekNumber = 53
    /\ RefDow(RefJan1(call.year) + 3) = 7
    /\ ret.getWeekBounds.end = ret.getWeekBounds.start + 6 * HoursPerDay

\* C4: for every week number w that is a real ISO week of the year (1..52, and
\* 53 when the year has 53 ISO weeks), getWeekNumber(getWeekBounds(year, w).start)
\* is w, including weeks whose Monday lies in the previous calendar year.
C4_WeekRoundTrip ==
    (call.fn = "getWeekBounds" /\ call.weekNumber <= RefIsoWeeksInYear(call.year)) =>
        getWeekNumber(ret.getWeekBounds.start) = call.weekNumber

\* C4 holds on hosts at or east of UTC
C4_WeekRoundTripEastOfUTC == tz >= 0 => C4_WeekRoundTrip

\* C4 witness: a week 1 whose Monday lies in the previous calendar year
C4_Witness ==
    /\ call.fn = "getWeekBounds"
    /\ call.weekNumber = 1
    /\ getUTCFullYear(ret.getWeekBounds.start) = call.year - 1
    /\ getWeekNumber(ret.getWeekBounds.start) = 1

\* C5: getWeekNumber(date) is the ISO-8601 week number of the date's calendar
\* day: weeks run Monday to Sunday, week 1 is the week containing the year's
\* first Thursday, and days of early January or late December that belong to the
\* neighbouring ISO year get that year's week number.
C5_IsoWeekNumber ==
    call.fn = "getWeekNumber" =>
        ret.getWeekNumber = RefIsoWeek(LocalDayNumber(call.date))

\* C5 witness: a Sunday in early January numbered as week 52 or 53 of the
\* previous ISO year
C5_Witness ==
    /\ call.fn = "getWeekNumber"
    /\ getMonth(call.date) = 0
    /\ RefDow(LocalDayNumber(call.date)) = 7
    /\ ret.getWeekNumber >= 52

-----------------------------------------------------------------------------
(* Claims about the compliance engine *)

\* day number of a date string
DayNoOfDate(d) == RefDayNo(d[1], d[2], d[3])

\* the entries of a list that carry the date string d
EntriesDated(entries, d) == {entries[i] : i \in {j \in 1..Len(entries) : entries[j].date = d}}

\* C6: calculateWeekSummary returns days with exactly 5 elements whose dates are
\* startDate, startDate + 1, ..., startDate + 4 (Monday to Friday, in that
\* order); each element is the entry of allEntries with that exact date if one
\* exists, otherwise {date, location: "home"}.
C6_FiveWeekdays ==
    call.fn = "calculateWeekSummary" =>
        LET sum   == ret.calculateWeekSummary
            start == DayNoOfDate(sum.startDate)
        IN  /\ start = RefMonday(call.year, call.weekNumber)
            /\ Len(sum.days) = 5
            /\ \A i \in 1..5 :
                 LET d == IsoDate(start + i - 1)
                 IN  /\ RefDow(start + i - 1) = i
                     /\ sum.days[i].date = d
                     /\ IF EntriesDated(call.allEntries, d) # {}
                        THEN sum.days[i] \in EntriesDated(call.allEntries, d)
                        ELSE sum.days[i] = [date |-> d, location |-> "home"]

\* C6 holds on hosts at or east of UTC
C6_FiveWeekdaysEastOfUTC == tz >= 0 => C6_FiveWeekdays

\* no entry of the call's list is dated on one of the seven days of the week
NoEntryInWeek ==
    LET monday == RefMonday(call.year, call.weekNumber)
    IN  \A i \in 1..Len(call.allEntries) :
           DayNoOfDate(call.allEntries[i].date) \notin monday..(monday + 6)

\* C7: when allEntries has no entry dated inside the week, calculateWeekSummary
\* returns officeDays = 0, five day entries all with location "home", and
\* isCompliant = false for every requiredOfficeDaysPerWeek >= 1 (and true when
\* requiredOfficeDaysPerWeek = 0).
C7_DefaultFill ==
    (call.fn = "calculateWeekSummary" /\ NoEntryInWeek) =>
        LET sum == ret.calculateWeekSummary
        IN  /\ sum.officeDays = 0
            /\ Len(sum.days) = 5
            /\ \A i \in 1..5 : sum.days[i].location = "home" /\ DOMAIN sum.days[i] = {"date", "location"}
            /\ sum.isCompliant = (call.config.requiredOfficeDaysPerWeek = 0)

\* C7 witness: a week summarised with entries that all lie outside it, under a
\* requirement of at least one office day
C7_Witness ==
    /\ call.fn = "calculateWeekSummary"
    /\ NoEntryInWeek
    /\ call.allEntries # <<>>
    /\ call.config.requiredOfficeDaysPerWeek >= 1
    /\ ret.calculateWeekSummary.officeDays = 0
    /\ ~ret.calculateWeekSummary.isCompliant

\* C8: officeDays is the number of the week's Monday-Friday dates that have an
\* entry with location "office" (so 0 <= officeDays <= 5); entries with another
\* location and entries dated on the week's Saturday or Sunday contribute
\* nothing and do not appear in days; isCompliant is exactly
\* officeDays >= requiredOfficeDaysPerWeek.
C8_OfficeDays ==
    call.fn = "calculateWeekSummary" =>
        LET sum    == ret.calculateWeekSummary
            monday == RefMonday(call.year, call.weekNumber)
            office == {o \in 0..4 : \E e \in EntriesDated(call.allEntries, IsoDate(monday + o)) :
                                       e.location = "office"}
        IN  /\ sum.officeDays = Cardinality(office)
            /\ sum.officeDays \in 0..5
            /\ \A i \in 1..Len(sum.days) :
                 sum.days[i].date \notin {IsoDate(monday + 5), IsoDate(monday + 6)}
            /\ sum.isCompliant = (sum.officeDays >= call.config.requiredOfficeDaysPerWeek)

\* C8 holds on hosts at or east of UTC
C8_OfficeDaysEastOfUTC == tz >= 0 => C8_OfficeDays

\* the status calculateQuarterSummary is claimed to return
StatusRule ==
    LET sum == ret.calculateQuarterSummary
        cfg == call.config
    IN  /\ sum.status = "compliant" <=> sum.compliantWeeks >= cfg.requiredCompliantWeeksPerQuarter
        /\ sum.status = "warning" <=>
              /\ sum.compliantWeeks < cfg.requiredCompliantWeeksPerQuarter
              /\ sum.compliantWeeks >= cfg.warningThresholdWeeks
        /\ sum.status = "danger" <=>
              /\ sum.compliantWeeks < cfg.requiredCompliantWeeksPerQuarter
              /\ sum.compliantWeeks < cfg.warningThresholdWeeks

DefaultExamples ==
    LET sum == ret.calculateQuarterSummary
    IN  call.config = DefaultConfig =>
           /\ sum.compliantWeeks = 9 => sum.status = "compliant"
           /\ sum.compliantWeeks = 7 => sum.status = "warning"
           /\ sum.compliantWeeks = 5 => sum.status = "danger"

C10_NoWarningWhenInverted ==
    (/\ call.fn = "calculateQuarterSummary"
     /\ call.config.warningThresholdWeeks > call.config.requiredCompliantWeeksPerQuarter) =>
        LET sum == ret.calculateQuarterSummary
        IN  /\ sum.status # "warning"
            /\ sum.status = IF sum.compliantWeeks >= call.config.requiredCompliantWeeksPerQuarter
                            THEN "compliant" ELSE "danger"

\* C10 witness: an inverted config with the compliant weeks at or above the
\* compliance threshold and below the warning threshold, reported compliant
C10_Witness ==
    /\ call.fn = "calculateQuarterSummary"
    /\ call.config.warningThresholdWeeks > call.config.requiredCompliantWeeksPerQuarter
    /\ ret.calculateQuarterSummary.compliantWeeks >= call.config.requiredCompliantWeeksPerQuarter
    /\ ret.calculateQuarterSummary.compliantWeeks < call.config.warningThresholdWeeks
    /\ ret.calculateQuarterSummary.status = "compliant"

\* the entry lists a week's summary is compared with: "office" on the first k
\* days of the week, from Monday
CompanionDays == {0, 1, 3, 5}
CompanionList(y, w, k) ==
    EntryList(RefMonday(y, w), [o \in 0..4 |-> IF o < k THEN "office" ELSE "none"], {})

\* compliance is kept from summary s1 to a summary s2 with at least as many office days
KeepsCompliance(s1, s2) == (s2.officeDays >= s1.officeDays /\ s1.isCompliant) => s2.isCompliant

\* C11: for a fixed week and a fixed requiredOfficeDaysPerWeek, if entry list E2
\* yields officeDays at least as large as entry list E1 and the week is
\* compliant under E1, then it is compliant under E2.
C11_Monotone ==
    call.fn = "calculateWeekSummary" =>
        \A k \in CompanionDays :
            KeepsCompliance(ret.calculateWeekSummary,
                            calculateWeekSummary(call.year, call.weekNumber, call.config,
                                                 CompanionList(call.year, call.weekNumber, k)))

\* C11 witness: a week that is compliant with exactly the required two office
\* days, and a second list that gives the same week more office days
C11_Witness ==
    /\ call.fn = "calculateWeekSummary"
    /\ call.config.requiredOfficeDaysPerWeek = 2
    /\ ret.calculateWeekSummary.officeDays = 2
    /\ ret.calculateWeekSummary.isCompliant
    /\ \E k \in CompanionDays :
          calculateWeekSummary(call.year, call.weekNumber, call.config,
                               CompanionList(call.year, call.weekNumber, k)).officeDays > 2

-----------------------------------------------------------------------------
(* Claims about the quarter's week list and the quarter summary *)

\* C12: for every year and quarter, getWeeksInQuarter returns week numbers in
\* strictly ascending order with no duplicates, all within 1..53.
C12_AscendingWeeks ==
    call.fn = "getWeeksInQuarter" =>
        /\ \A i \in 1..Len(ret.getWeeksInQuarter) : ret.getWeeksInQuarter[i] \in 1..53
        /\ \A i, j \in 1..Len(ret.getWeeksInQuarter) :
              i < j => ret.getWeeksInQuarter[i] < ret.getWeeksInQuarter[j]

\* C12 witness: a first quarter whose list took over week 53 of the previous
\* year, which the sort has moved behind the year's own weeks
C12_Witness ==
    /\ call.fn = "getWeeksInQuarter"
    /\ call.quarter = 1
    /\ getQuarterForWeek(call.year - 1, 53) = [year |-> call.year, quarter |-> 1]
    /\ Len(ret.getWeeksInQuarter) > 1
    /\ ret.getWeeksInQuarter[Len(ret.getWeeksInQuarter)] = 53

\* week 53 of the previous year, as getWeekBounds gives it, contains January 1
\* of year y (and so reaches into y)
PrevWeek53HoldsJan1(y) ==
    LET jan1 == HoursPerDay * RefJan1(y)
    IN  getWeekBounds(y - 1, 53).start <= jan1 /\ jan1 <= getWeekBounds(y - 1, 53).end

\* C13: getWeeksInQuarter(Y, 1) contains 53 if and only if week 53 of year Y-1
\* (as given by getWeekBounds(Y-1, 53)) spills into year Y and contains
\* January 1 of Y; for quarters 2..4 the previous year's week 53 is never added
\* (a 53 listed there is the year's own week 53).  The host runs on UTC.
C13_Week53OfPreviousYear ==
    (call.fn = "getWeeksInQuarter" /\ tz = 0) =>
        IF call.quarter = 1
        THEN 53 \in SeqToSet(ret.getWeeksInQuarter) <=> PrevWeek53HoldsJan1(call.year)
        ELSE 53 \in SeqToSet(ret.getWeeksInQuarter) =>
                getQuarterForWeek(call.year, 53) = [year |-> call.year, quarter |-> call.quarter]


\* C22: whenever getWeeksInQuarter(Y, 1) includes the previous year's week 53,
\* that 53 is the first element of the returned list, before week 1.
C22_Week53First ==
    (/\ call.fn = "getWeeksInQuarter"
     /\ call.quarter = 1
     /\ 53 \in SeqToSet(ret.getWeeksInQuarter))
        => ret.getWeeksInQuarter[1] = 53

\* the summary holds one week summary per listed week number, in the list's order
WeeksAsListed(sum, weekNumbers) ==
    /\ Len(sum.weeks) = Len(weekNumbers)
    /\ \A i \in 1..Len(weekNumbers) :
          sum.weeks[i] = calculateWeekSummary(call.year, weekNumbers[i], call.config, call.allEntries)

\* C14: calculateQuarterSummary(...).weeks has one WeekSummary per element of
\* getWeeksInQuarter(year, quarter), in the same order, each equal to
\* calculateWeekSummary(year, thatWeek, config, allEntries); totalWeeks equals
\* the length of weeks, compliantWeeks equals the number of weeks with
\* isCompliant true, and 0 <= compliantWeeks <= totalWeeks.
C14_QuarterWeeks ==
    call.fn = "calculateQuarterSummary" =>
        /\ WeeksAsListed(ret.calculateQuarterSummary, getWeeksInQuarter(call.year, call.quarter))
        /\ ret.calculateQuarterSummary.totalWeeks = Len(ret.calculateQuarterSummary.weeks)
        /\ ret.calculateQuarterSummary.compliantWeeks =
              Cardinality({i \in DOMAIN ret.calculateQuarterSummary.weeks :
                              ret.calculateQuarterSummary.weeks[i].isCompliant})
        /\ ret.calculateQuarterSummary.compliantWeeks \in 0..ret.calculateQuarterSummary.totalWeeks

\* C14 witness: a quarter summarised with some of its weeks compliant and
\* others not
C14_Witness ==
    /\ call.fn = "calculateQuarterSummary"
    /\ ret.calculateQuarterSummary.compliantWeeks > 0
    /\ ret.calculateQuarterSummary.compliantWeeks < ret.calculateQuarterSummary.totalWeeks
    /\ ret.calculateQuarterSummary.totalWeeks = Len(getWeeksInQuarter(call.year, call.quarter))

-----------------------------------------------------------------------------
(* Claims about the engine as a whole *)

-----------------------------------------------------------------------------
(* Claims about the stores *)

\* at most one day record per user and date, in both stores
OneRecordPerDate ==
    /\ \A u \in Users, d \in StoreDates : Cardinality(ByUserAndDate(dayEntries, u, d)) <= 1
    /\ \A k \in DOMAIN loadDays : loadDays[k].date = k

\* after a setDay the one record of that date holds the call's location and
\* notes, and no notes if the call gave none
SetDayReplaces ==
    /\ (call.fn = "days.setDay" /\ call.user # NoUser) =>
          \E doc \in dayEntries :
             /\ ByUserAndDate(dayEntries, call.user, call.date) = {doc}
             /\ doc = Inserted(ret.id, call.user, [date |-> call.date] @@ call.args)
    /\ call.fn = "storage.setDay" =>
          /\ call.entry.date \in DOMAIN loadDays
          /\ loadDays[call.entry.date] = call.entry

\* a step that repeats the setDay made just before it changes neither store
RepeatedSetDay ==
    (call' = call /\ call.fn \in {"days.setDay", "storage.setDay"}) => UNCHANGED stores

OwnRecordsReturned ==
    /\ (call.fn = "days.getDay" /\ call.user # NoUser) =>
          \/ ret.entry = Null
          \/ ret.entry \in dayEntries /\ ret.entry.userId = call.user
    /\ (call.fn \in {"days.getDaysInRange", "days.getAllDays"} /\ call.user # NoUser) =>
          \A i \in 1..Len(ret.entries) :
             ret.entries[i] \in dayEntries /\ ret.entries[i].userId = call.user
    /\ (call.fn = "config.getConfig" /\ call.user # NoUser) =>
          \/ ret.config = DefaultConfig
          \/ ret.config \in complianceConfig /\ ret.config.userId = call.user

\* a step leaves the records of every user other than its caller as they were
OthersRecordsKept ==
    \A other \in Users \ {call'.user} :
        /\ ByUser(dayEntries', other) = ByUser(dayEntries, other)
        /\ ByUser(complianceConfig', other) = ByUser(complianceConfig, other)

\* C17: for any sequence of operations by several authenticated users, getDay,
\* getDaysInRange, getAllDays and getConfig called by user A return only
\* records whose userId is A, and setDay, removeDay and setConfig called by
\* user A never create, change or delete a record whose userId is another
\* user's.
C17_UserIsolation == []OwnRecordsReturned /\ [][OthersRecordsKept]_vars

\* C17 witness: both users hold an entry of the same date, and one of them has
\* just read the own one
C17_Witness ==
    /\ call.fn = "days.getDay"
    /\ call.user = "u2"
    /\ ret.entry # Null
    /\ ByUserAndDate(dayEntries, "u1", call.date) # {}
    /\ ret.entry \notin ByUserAndDate(dayEntries, "u1", call.date)

ConvexFunctions ==
    {"days.getDay", "days.getDaysInRange", "days.getAllDays", "days.setDay", "days.removeDay",
     "config.getConfig", "config.setConfig"}

\* C18: every Convex query and mutation (getDay, getDaysInRange, getAllDays,
\* setDay, removeDay, getConfig, setConfig) called without an authenticated
\* user fails with the error "Not authenticated" and leaves the dayEntries and
\* complianceConfig tables unchanged.
C18_NotAuthenticated ==
    /\ [](call.fn \in ConvexFunctions /\ call.user = NoUser => ret = Thrown("Not authenticated"))
    /\ [][call'.user = NoUser => UNCHANGED <<dayEntries, complianceConfig>>]_vars

\* C18 witness: a setDay without a session, refused while the tables hold
\* documents
C18_Witness ==
    /\ call.fn = "days.setDay"
    /\ call.user = NoUser
    /\ ret = Thrown("Not authenticated")
    /\ dayEntries # {}
    /\ complianceConfig # {}

\* the three values of a configuration
ConfigValues(config) ==
    [f \in {"requiredOfficeDaysPerWeek", "requiredCompliantWeeksPerQuarter", "warningThresholdWeeks"} |->
        config[f]]

\* a read without a stored configuration returns the default
DefaultWhenNeverStored ==
    /\ (call.fn = "config.getConfig" /\ call.user # NoUser /\ ByUser(complianceConfig, call.user) = {}) =>
          /\ ret.config = DefaultConfig
          /\ ConfigValues(ret.config) =
                [requiredOfficeDaysPerWeek |-> 2, requiredCompliantWeeksPerQuarter |-> 8,
                 warningThresholdWeeks |-> 7]
    /\ (call.fn = "storage.loadConfig" /\ localStorage[CONFIG_KEY] = Null) =>
          ConfigValues(ret.config) =
             [requiredOfficeDaysPerWeek |-> 2, requiredCompliantWeeksPerQuarter |-> 8,
              warningThresholdWeeks |-> 7]

\* a read that follows a write (of the same user) returns what was written
ReadAfterWrite ==
    /\ (call.fn = "config.setConfig" /\ call.user # NoUser
          /\ call'.fn = "config.getConfig" /\ call'.user = call.user) =>
             ConfigValues(ret'.config) = call.args
    /\ (call.fn = "storage.saveConfig" /\ call'.fn = "storage.loadConfig") =>
             ConfigValues(ret'.config) = call.config

-----------------------------------------------------------------------------
(* Claims about the dashboard *)

\* the location localStorage holds for a date; a date never logged is "home"
StoredLocation(date) ==
    IF date \in DOMAIN loadDays THEN loadDays[date].location ELSE "home"

\* a week summary shows, day by day, what localStorage holds, and counts the
\* stored office days
ShowsStoredDays(week) ==
    /\ \A i \in 1..Len(week.days) :
         week.days[i].location = StoredLocation(week.days[i].date)
    /\ week.officeDays =
         Cardinality({i \in 1..Len(week.days) : StoredLocation(week.days[i].date) = "office"})

\* a quarter summary shows the stored days in each week and counts the weeks
\* that the stored days make compliant
QuarterShowsStoredDays(quarter) ==
    /\ \A i \in 1..Len(quarter.weeks) : ShowsStoredDays(quarter.weeks[i])
    /\ quarter.compliantWeeks =
         Cardinality({i \in 1..Len(quarter.weeks) :
                         IsCompliantWeek(quarter.weeks[i].officeDays, loadConfig)})

\* C20: after a day of a week card is toggled, localStorage holds the next
\* location of the cycle for that date, the recomputed quarter summaries show
\* the stored days and count them in officeDays and compliantWeeks, and once
\* the card's effect has run the card displays that same week.
C20_RealTimeUpdate ==
    call.fn = "WeekCard.handleToggle" =>
        /\ StoredLocation(call.date) = NextLocation(call.currentLocation)
        /\ \A q \in 1..Len(dashboard.quarters) : QuarterShowsStoredDays(dashboard.quarters[q])
        /\ cardEffects = {} => \A w \in DOMAIN localWeek : ShowsStoredDays(localWeek[w])


-----------------------------------------------------------------------------
(* Claims about the root layout *)

\* the Dashboard has run loadData, or a card holds a week
DashboardMounted == ~dashboard.isLoading \/ DOMAIN localWeek # {}

\* C21: the Header and the routed page are rendered only when isLoading is
\* false and isAuthenticated is true; while loading only the loading
\* placeholder is rendered, and when not authenticated only the LoginPage; the
\* page holds state only while it is rendered.
C21_AuthWall ==
    /\ ("Header" \in rendered \/ "children" \in rendered)
          => ~convexAuth.isLoading /\ convexAuth.isAuthenticated
    /\ convexAuth.isLoading => rendered = {"Loading"}
    /\ ~convexAuth.isLoading /\ ~convexAuth.isAuthenticated => rendered = {"LoginPage"}
    /\ ~convexAuth.isLoading /\ convexAuth.isAuthenticated => rendered = {"Header", "children"}
    /\ DashboardMounted => "children" \in rendered

\* C21 witness: a user who had logged a day on the page is shown the LoginPage
\* once not authenticated any more
C21_Witness ==
    /\ localStorage[STORAGE_KEY] # Null
    /\ ~convexAuth.isLoading /\ ~convexAuth.isAuthenticated
    /\ rendered = {"LoginPage"}


-----------------------------------------------------------------------------
(* Claims about the weeks the quarter summaries report *)

\* the week summary describes a calendar week assigned to (y, q): it starts on
\* a Monday in calendar quarter q of year y, or q = 1 and it holds January 1 of y
AssignedTo(week, y, q) ==
    \/ /\ RefDow(DayNoOfDate(week.startDate)) = 1
       /\ week.startDate[1] = y
       /\ RefQuarterOfMonth(week.startDate[2]) = q
    \/ /\ q = 1
       /\ DayNoOfDate(week.startDate) <= RefJan1(y)
       /\ RefJan1(y) <= DayNoOfDate(week.endDate)

\* C23: every WeekSummary in calculateQuarterSummary(Y, q, ...).weeks describes
\* a calendar week that is assigned to (Y, q); in particular no week of a Q1
\* summary for year Y starts in January of year Y+1.  The host runs on UTC.
C23_WeeksOfTheQuarter ==
    (call.fn = "calculateQuarterSummary" /\ tz = 0) =>
        \A i \in 1..Len(ret.calculateQuarterSummary.weeks) :
            LET week == ret.calculateQuarterSummary.weeks[i]
            IN  /\ AssignedTo(week, call.year, call.quarter)
                /\ call.quarter = 1 => ~(week.startDate[1] = call.year + 1 /\ week.startDate[2] = 1)


\* the start dates of the weeks a quarter summary reports
StartDates(sum) == {sum.weeks[i].startDate : i \in 1..Len(sum.weeks)}

\* C24: no calendar week is reported twice: the week summaries that
\* calculateQuarterSummary produces for two different (year, quarter) pairs of
\* the years Y, Y+1 never have the same startDate (the week reported as week 53
\* in Q4 of Y is not also reported as week 1 in Q1 of Y+1).  The host runs on UTC.
C24_NoWeekTwice ==
    (call.fn = "calculateQuarterSummary" /\ tz = 0) =>
        \A y \in {call.year, call.year + 1}, q \in 1..4 :
            <<y, q>> # <<call.year, call.quarter>> =>
                StartDates(ret.calculateQuarterSummary)
                    \cap StartDates(calculateQuarterSummary(y, q, call.config, call.allEntries)) = {}


-----------------------------------------------------------------------------
(* Claims about a growing log of days *)

\* the stored days as storage.getDaysInRange returns them for the whole year
StoredEntries ==
    SortedByDate(loadDays,
                 {k \in DOMAIN loadDays :
                     StrLeq(<<LogYear, 1, 1>>, k) /\ StrLeq(k, <<LogYear, 12, 31>>)})

\* the configurations the log is summarised with: two office days a week with
\* the warning threshold below the compliance threshold, and one office day a
\* week with the warning threshold above it
LogConfigs ==
    { [requiredCompliantWeeksPerQuarter |-> 1, requiredOfficeDaysPerWeek |-> 2,
       warningThresholdWeeks |-> 0],
      [requiredCompliantWeeksPerQuarter |-> 2, requiredOfficeDaysPerWeek |-> 1,
       warningThresholdWeeks |-> 1],
      [requiredCompliantWeeksPerQuarter |-> 1, requiredOfficeDaysPerWeek |-> 1,
       warningThresholdWeeks |-> 2] }

\* danger < warning < compliant
StatusRank(status) ==
    IF status = "danger" THEN 1 ELSE IF status = "warning" THEN 2 ELSE 3

\* no week has fewer office days or lost its compliance, and the quarter has
\* no fewer compliant weeks and no lower status
QuarterNotWorse(before, after) ==
    /\ Len(after.weeks) = Len(before.weeks)
    /\ \A i \in 1..Len(before.weeks) :
         /\ after.weeks[i].officeDays >= before.weeks[i].officeDays
         /\ before.weeks[i].isCompliant => after.weeks[i].isCompliant
    /\ after.compliantWeeks >= before.compliantWeeks
    /\ StatusRank(after.status) >= StatusRank(before.status)

YearNotWorse(before, after) ==
    \A q \in 1..4 : QuarterNotWorse(before[q], after[q])

\* C25: over any sequence of setDay operations, an operation that sets a
\* date's location to "office" never decreases any week's officeDays, never
\* turns a compliant week non-compliant, never decreases any quarter's
\* compliantWeeks and never moves any quarter's status downward in the order
\* danger < warning < compliant, also when warningThresholdWeeks lies above
\* requiredCompliantWeeksPerQuarter.
C25_OfficeNeverHurts ==
    [][(call'.fn = "storage.setDay" /\ call'.entry.location = "office") =>
          \A config \in LogConfigs :
              YearNotWorse(calculateYearSummary(LogYear, config, StoredEntries),
                           calculateYearSummary(LogYear, config, StoredEntries'))]_vars

\* C25 witness: an office day was set, and with the warning threshold above
\* the compliance threshold the first quarter now has two compliant weeks
C25_Witness ==
    /\ call.fn = "storage.setDay"
    /\ call.entry.location = "office"
    /\ \E config \in LogConfigs :
         /\ config.warningThresholdWeeks > config.requiredCompliantWeeksPerQuarter
         /\ calculateQuarterSummary(LogYear, 1, config, StoredEntries).compliantWeeks = 2
         /\ calculateQuarterSummary(LogYear, 1, config, StoredEntries).status = "compliant"


-----------------------------------------------------------------------------
(* Claims about what a week summary depends on *)

\* the entries of the list dated on Monday..Friday of week w of year y
OnWeekdaysOf(y, w, entries) ==
    SelectSeq(entries,
              LAMBDA e : DayNoOfDate(e.date) \in RefMonday(y, w)..(RefMonday(y, w) + 4))

\* C26: calculateWeekSummary(year, w, config, E) depends only on the entries of
\* E dated on the five Monday-Friday dates of that week: without the entries
\* dated elsewhere (other weeks, or that week's Saturday and Sunday) the
\* returned WeekSummary is the same.
C26_OnlyWeekdaysCount ==
    call.fn = "calculateWeekSummary" =>
        ret.calculateWeekSummary =
            calculateWeekSummary(call.year, call.weekNumber, call.config,
                                 OnWeekdaysOf(call.year, call.weekNumber, call.allEntries))

\* C26 holds on hosts at or east of UTC
C26_OnlyWeekdaysCountEastOfUTC == tz >= 0 => C26_OnlyWeekdaysCount


-----------------------------------------------------------------------------
(* Claims about what the stores leave alone *)

\* the documents of the Convex table other than those of user u for date d
OtherDocs(table, u, d) == table \ ByUserAndDate(table, u, d)

\* the entries of the localStorage object other than that of date d
OtherKeys(days, d) == [k \in DOMAIN days \ {d} |-> days[k]]

\* a setDay changes no stored entry of another date or another user
SetDayFrame ==
    /\ (call'.fn = "days.setDay" /\ call'.user # NoUser) =>
          /\ OtherDocs(dayEntries', call'.user, call'.date)
                = OtherDocs(dayEntries, call'.user, call'.date)
          /\ loadDays' = loadDays
    /\ call'.fn = "storage.setDay" =>
          /\ OtherKeys(loadDays', call'.entry.date) = OtherKeys(loadDays, call'.entry.date)
          /\ dayEntries' = dayEntries

\* a removeDay / deleteDay removes the entry of its date (of the calling user)
\* and nothing else; without such an entry the stored days stay as they are
RemoveDayFrame ==
    /\ (call'.fn = "days.removeDay" /\ call'.user # NoUser) =>
          /\ dayEntries' = OtherDocs(dayEntries, call'.user, call'.date)
          /\ ByUserAndDate(dayEntries, call'.user, call'.date) = {} => dayEntries' = dayEntries
          /\ loadDays' = loadDays
    /\ call'.fn = "storage.deleteDay" =>
          /\ loadDays' = OtherKeys(loadDays, call'.date)
          /\ call'.date \notin DOMAIN loadDays => loadDays' = loadDays
          /\ dayEntries' = dayEntries

\* a getDay that follows the removal of its date returns no entry
GetDayAfterRemoval ==
    /\ (/\ call.fn = "days.removeDay" /\ call'.fn = "days.getDay"
        /\ call.user # NoUser /\ call'.user = call.user /\ call'.date = call.date)
          => ret' = Returned("entry", Null)
    /\ (call.fn = "storage.deleteDay" /\ call'.fn = "storage.getDay" /\ call'.date = call.date)
          => ret' = Returned("entry", Undefined)

-----------------------------------------------------------------------------
(* Claims about the host's time zone *)

\* C28: for every host UTC offset (whole hours from -12 to +14, no DST),
\* getWeekdays(year, w) yields the same five Monday-Friday date strings, and
\* getQuarterForWeek and getWeeksInQuarter yield the same results, as they do
\* when the host time zone is UTC: the call repeated on the UTC host returns
\* what the first host returned.
C28_TimezoneIndependence ==
    (call # Idle /\ call.repeated) => ret = seen[1]

\* C28 holds for the hosts at or east of UTC: the results that differ from
\* those of the UTC host come from hosts west of it
C28_TimezoneIndependenceEastOfUTC ==
    (call # Idle /\ call.repeated /\ call.host > 0) => ret = seen[1]

=============================================================================
